---------------------------- MODULE Spec2Model ----------------------------
(***************************************************************************)
(* Replay engine and board codec of cgpbot's testgen scripts               *)
(* (gcg_parser.py, match_game.py).                                         *)
(*                                                                         *)
(* Text is modelled as a sequence of one-character strings, so that the    *)
(* encoders and parsers are computed character by character as the Python  *)
(* code computes them.  Python lists indexed 0..n-1 are functions on       *)
(* 0..n-1.                                                                 *)
(***************************************************************************)
EXTENDS Integers, Sequences, FiniteSets, TLC

VARIABLES
    heap,           \* object store: reference -> GameState value
    states,         \* parse_gcg's list `states`: a sequence of references
    nicknames,      \* parse_gcg's dict `nicknames`: name -> player index
    pending_phony,  \* parse_gcg's `pending_phony`: None or (row, col, h, word)
    pc,             \* where parse_gcg is: "loop", "returned", "raised"
    nread,          \* number of log lines consumed so far
    hist,           \* per appended snapshot: the line and branch that made it
    nmove,          \* number of lines read that are '>' lines of four fields or more
    fin,            \* input of the pure function under test
    fout,           \* its outputs so far
    fpc             \* which functions have been applied to fin

vars == <<heap, states, nicknames, pending_phony, pc, nread, hist, nmove, fin, fout, fpc>>

replayVars == <<heap, states, nicknames, pending_phony, pc, nread, hist, nmove>>
pureVars == <<fin, fout, fpc>>

\* Python's None, for a slot that holds None or a one-element tuple of its value
None == <<>>

----------------------------------------------------------------------------
(* Bounds of the model.                                                    *)

\* log lines read by one replay
MaxLines == 3
\* placements that build a board given to the pure functions
MaxPlays == 2
\* candidate games given to one search
MaxCandidates == 3

----------------------------------------------------------------------------
(* Characters and Python's str / int primitives.                           *)

\* side of the board: range(15) in GameState.board and to_cgp
BoardSize == 15

COLS == <<"A","B","C","D","E","F","G","H","I","J","K","L","M","N","O">>

LowerCase == <<"a","b","c","d","e","f","g","h","i","j","k","l","m",
               "n","o","p","q","r","s","t","u","v","w","x","y","z">>
UpperCase == <<"A","B","C","D","E","F","G","H","I","J","K","L","M",
               "N","O","P","Q","R","S","T","U","V","W","X","Y","Z">>
DigitChars == <<"0","1","2","3","4","5","6","7","8","9">>

Range(s) == {s[i] : i \in DOMAIN s}

IndexIn(s, ch) == CHOOSE i \in DOMAIN s : s[i] = ch

\* str.islower / str.isdigit / str.isalnum / str.upper on one character
islower(ch) == ch \in Range(LowerCase)
isupper(ch) == ch \in Range(UpperCase)
isdigit(ch) == ch \in Range(DigitChars)
isalnum(ch) == islower(ch) \/ isupper(ch) \/ isdigit(ch)
upper(ch) == IF islower(ch) THEN UpperCase[IndexIn(LowerCase, ch)] ELSE ch

upper_str(s) == [i \in DOMAIN s |-> upper(s[i])]

\* int(ch) for a digit character
DigitVal(ch) == IndexIn(DigitChars, ch) - 1

\* str(n) for a natural number
RECURSIVE NatStr(_)
NatStr(n) ==
    IF n < 10 THEN <<DigitChars[n + 1]>>
    ELSE NatStr(n \div 10) \o <<DigitChars[(n % 10) + 1]>>

\* str(n) for an integer
IntStr(n) == IF n < 0 THEN <<"-">> \o NatStr(-n) ELSE NatStr(n)

\* value of a sequence of digit characters
RECURSIVE DecVal(_)
DecVal(s) ==
    IF s = <<>> THEN 0
    ELSE 10 * DecVal(SubSeq(s, 1, Len(s) - 1)) + DigitVal(s[Len(s)])

AllDigits(s) == s # <<>> /\ \A i \in DOMAIN s : isdigit(s[i])

\* int(s): [ok |-> FALSE] stands for ValueError
int(s) ==
    LET signed == s # <<>> /\ s[1] \in {"+", "-"}
        body   == IF signed THEN Tail(s) ELSE s
    IN  IF AllDigits(body)
        THEN [ok |-> TRUE,
              val |-> IF signed /\ s[1] = "-" THEN -DecVal(body) ELSE DecVal(body)]
        ELSE [ok |-> FALSE, val |-> 0]

\* s.lstrip("+")
RECURSIVE lstrip_plus(_)
lstrip_plus(s) ==
    IF s # <<>> /\ s[1] = "+" THEN lstrip_plus(Tail(s)) ELSE s

\* "sep".join(parts)
RECURSIVE join(_, _)
join(sep, parts) ==
    IF parts = <<>> THEN <<>>
    ELSE IF Len(parts) = 1 THEN parts[1]
    ELSE parts[1] \o sep \o join(sep, Tail(parts))

\* s.split(sep) for a one-character separator
RECURSIVE split_on(_, _, _)
split_on(s, sep, cur) ==
    IF s = <<>> THEN <<cur>>
    ELSE IF s[1] = sep THEN <<cur>> \o split_on(Tail(s), sep, <<>>)
    ELSE split_on(Tail(s), sep, Append(cur, s[1]))

\* s.split()[0]: the first whitespace-delimited token
RECURSIVE first_token(_)
first_token(s) ==
    IF s = <<>> \/ s[1] = " " THEN <<>> ELSE <<s[1]>> \o first_token(Tail(s))

RECURSIVE skip_spaces(_)
skip_spaces(s) == IF s # <<>> /\ s[1] = " " THEN skip_spaces(Tail(s)) ELSE s

----------------------------------------------------------------------------
(* Data types.                                                             *)

Idx == 0 .. (BoardSize - 1)

\* Cell(): letter "" and is_blank False
Cell(letter, is_blank) == [letter |-> letter, is_blank |-> is_blank]
EmptyCell == Cell("", FALSE)

EmptyBoard == [r \in Idx |-> [c \in Idx |-> EmptyCell]]

\* GameState(): the dataclass defaults
NewGameState ==
    [board    |-> EmptyBoard,
     racks    |-> [p \in {0, 1} |-> <<>>],
     scores   |-> [p \in {0, 1} |-> 0],
     turn     |-> 0,
     on_turn  |-> 0,
     players  |-> [p \in {0, 1} |-> IF p = 0 THEN "Player1" ELSE "Player2"],
     lexicon  |-> <<>>,
     game_id  |-> ""]

----------------------------------------------------------------------------
(* GameState.to_cgp                                                        *)

\* the inner loop over c of to_cgp, with its trailing `if empty`
RECURSIVE cgp_row(_, _, _, _)
cgp_row(cells, c, empty, row) ==
    IF c = BoardSize
    THEN IF empty # 0 THEN row \o NatStr(empty) ELSE row
    ELSE IF cells[c].letter = ""
         THEN cgp_row(cells, c + 1, empty + 1, row)
         ELSE cgp_row(cells, c + 1, 0,
                      (IF empty # 0 THEN row \o NatStr(empty) ELSE row)
                          \o <<cells[c].letter>>)

DefaultLexicon == <<"N","W","L","2","3">>

to_cgp(gs) ==
    LET rows      == [i \in 1 .. BoardSize |-> cgp_row(gs.board[i - 1], 0, 0, <<>>)]
        board_str == join(<<"/">>, rows)
        rack_str  == gs.racks[gs.on_turn]
        lex       == IF gs.lexicon # <<>> THEN gs.lexicon ELSE DefaultLexicon
    IN  board_str \o <<" ">> \o rack_str \o <<"/", " ">>
            \o IntStr(gs.scores[0]) \o <<" ">> \o IntStr(gs.scores[1])
            \o <<" ", "l", "e", "x", " ">> \o lex \o <<";">>

----------------------------------------------------------------------------
(* board_occupancy / board_letters (match_game.py)                         *)

\* the loop over the characters of one row: the set of (r, c) added
RECURSIVE occupancy_row(_, _, _)
occupancy_row(row, r, c) ==
    IF row = <<>> THEN {}
    ELSE IF isdigit(row[1])
         THEN occupancy_row(Tail(row), r, c + DigitVal(row[1]))
         ELSE {<<r, c>>} \cup occupancy_row(Tail(row), r, c + 1)

board_occupancy(cgp) ==
    LET board_str == first_token(skip_spaces(cgp))
        rows      == split_on(board_str, "/", <<>>)
    IN  UNION {occupancy_row(rows[i], i - 1, 0) : i \in DOMAIN rows}

\* the same loop filling the dict letters[(r, c)] = ch.upper()
RECURSIVE letters_row(_, _, _, _)
letters_row(row, r, c, letters) ==
    IF row = <<>> THEN letters
    ELSE IF isdigit(row[1])
         THEN letters_row(Tail(row), r, c + DigitVal(row[1]), letters)
         ELSE letters_row(Tail(row), r, c + 1,
                          (<<r, c>> :> upper(row[1])) @@ letters)

RECURSIVE letters_rows(_, _, _)
letters_rows(rows, i, letters) ==
    IF i > Len(rows) THEN letters
    ELSE letters_rows(rows, i + 1, letters_row(rows[i], i - 1, 0, letters))

board_letters(cgp) ==
    LET board_str == first_token(skip_spaces(cgp))
        rows      == split_on(board_str, "/", <<>>)
    IN  letters_rows(rows, 1, <<>>)

----------------------------------------------------------------------------
(* place_word / remove_word                                                *)

\* Python list indexing: -15..-1 wrap around, anything else is IndexError
InRange(i) == i >= -BoardSize /\ i < BoardSize
PyIdx(i) == IF i < 0 THEN i + BoardSize ELSE i

\* the cells a word's characters fall on, in order
WordPos(k, row, col, horizontal) ==
    IF horizontal THEN <<row, col + (k - 1)>> ELSE <<row + (k - 1), col>>

\* TRUE when every board[r][c] the loop writes is a valid index
WritesInRange(word, row, col, horizontal) ==
    \A k \in DOMAIN word :
        word[k] # "." =>
            /\ InRange(WordPos(k, row, col, horizontal)[1])
            /\ InRange(WordPos(k, row, col, horizontal)[2])

SetCell(board, r, c, cell) ==
    [board EXCEPT ![PyIdx(r)] = [@ EXCEPT ![PyIdx(c)] = cell]]

\* a placement that stores the upper-case form of every letter
RECURSIVE place_from_upper(_, _, _, _, _, _)
place_from_upper(board, word, k, row, col, horizontal) ==
    IF k > Len(word) THEN board
    ELSE LET ch  == word[k]
             pos == WordPos(k, row, col, horizontal)
             b   == IF ch # "."
                    THEN SetCell(board, pos[1], pos[2], Cell(upper(ch), islower(ch)))
                    ELSE board
         IN  place_from_upper(b, word, k + 1, row, col, horizontal)

\* lines 110-118: the loop of place_word from its k-th character on
RECURSIVE place_from(_, _, _, _, _, _)
place_from(board, word, k, row, col, horizontal) ==
    IF k > Len(word) THEN board
    ELSE LET ch  == word[k]
             pos == WordPos(k, row, col, horizontal)
             b   == IF ch # "."
                    THEN SetCell(board, pos[1], pos[2], Cell(ch, islower(ch)))
                    ELSE board
         IN  place_from(b, word, k + 1, row, col, horizontal)

place_word(board, word, row, col, horizontal) ==
    place_from(board, word, 1, row, col, horizontal)

RECURSIVE remove_from(_, _, _, _, _, _)
remove_from(board, word, k, row, col, horizontal) ==
    IF k > Len(word) THEN board
    ELSE LET ch  == word[k]
             pos == WordPos(k, row, col, horizontal)
             b   == IF ch # "."
                    THEN SetCell(board, pos[1], pos[2], EmptyCell)
                    ELSE board
         IN  remove_from(b, word, k + 1, row, col, horizontal)

\* remove_word stepping along the row whatever the orientation
remove_word_along_row(board, word, row, col, horizontal) ==
    remove_from(board, word, 1, row, col, TRUE)

remove_word(board, word, row, col, horizontal) ==
    remove_from(board, word, 1, row, col, horizontal)

\* the arguments of one placement: (row, col, horizontal, word) of pending_phony
Play(word, row, col, horizontal) ==
    [word |-> word, row |-> row, col |-> col, horizontal |-> horizontal]

----------------------------------------------------------------------------
(* parse_coord                                                             *)

RECURSIVE take_while_digit(_)
take_while_digit(s) ==
    IF s # <<>> /\ isdigit(s[1]) THEN <<s[1]>> \o take_while_digit(Tail(s)) ELSE <<>>

RECURSIVE take_while_col(_)
take_while_col(s) ==
    IF s # <<>> /\ s[1] \in Range(COLS) THEN <<s[1]>> \o take_while_col(Tail(s)) ELSE <<>>

Drop(s, n) == SubSeq(s, n + 1, Len(s))

\* parse_coord without line 86, the upper-casing
parse_coord_case_sensitive(coord0) ==
    LET coord == coord0
        hd    == take_while_digit(coord)
        hl    == take_while_col(Drop(coord, Len(hd)))
        vl    == take_while_col(coord)
        vd    == take_while_digit(Drop(coord, Len(vl)))
        bad   == [ok |-> FALSE, row |-> 0, col |-> 0, horizontal |-> FALSE]
    IN  IF hd # <<>> /\ hl # <<>> /\ Len(hd) + Len(hl) = Len(coord)
        THEN [ok |-> TRUE, row |-> DecVal(hd) - 1,
              col |-> IndexIn(COLS, hl[1]) - 1, horizontal |-> TRUE]
        ELSE IF vl # <<>> /\ vd # <<>> /\ Len(vl) + Len(vd) = Len(coord)
        THEN [ok |-> TRUE, row |-> DecVal(vd) - 1,
              col |-> IndexIn(COLS, vl[1]) - 1, horizontal |-> FALSE]
        ELSE bad

\* [ok |-> FALSE] stands for the ValueError of the last line
parse_coord(coord0) ==
    LET coord == upper_str(coord0)
        hd    == take_while_digit(coord)
        hl    == take_while_col(Drop(coord, Len(hd)))
        vl    == take_while_col(coord)
        vd    == take_while_digit(Drop(coord, Len(vl)))
        bad   == [ok |-> FALSE, row |-> 0, col |-> 0, horizontal |-> FALSE]
    IN  IF hd # <<>> /\ hl # <<>> /\ Len(hd) + Len(hl) = Len(coord)
        THEN [ok |-> TRUE, row |-> DecVal(hd) - 1,
              col |-> IndexIn(COLS, hl[1]) - 1, horizontal |-> TRUE]
        ELSE IF vl # <<>> /\ vd # <<>> /\ Len(vl) + Len(vd) = Len(coord)
        THEN [ok |-> TRUE, row |-> DecVal(vd) - 1,
              col |-> IndexIn(COLS, vl[1]) - 1, horizontal |-> FALSE]
        ELSE bad

----------------------------------------------------------------------------
(* The log lines given to parse_gcg.  A line is held split as the code     *)
(* splits it: its leading tag, whether a ':' occurs in it, the player name *)
(* before the ':', and the whitespace-separated fields after the tag or    *)
(* the ':'.                                                                *)

Hdr(tag, rest) == [tag |-> tag, colon |-> FALSE, name |-> "", rest |-> rest]
Mv(name, rest) == [tag |-> ">", colon |-> TRUE, name |-> name, rest |-> rest]

Rack == <<"Q", "?">>
DashDash == <<"-", "-">>
Challenge == <<"(", "c", "h", "a", "l", "l", "e", "n", "g", "e", ")">>
Time == <<"(", "t", "i", "m", "e", ")">>
Plus(d) == <<"+", d>>

HeaderLines ==
    { Hdr("#player1", <<"A", "Alice">>),
      Hdr("#player2", <<"B">>),
      Hdr("#lexicon", << <<"C", "S", "W">> >>),
      Hdr("#lexicon", <<>>),
      Hdr("#id", <<"io.woogles", "g1">>),
      Hdr("#title", <<"x">>) }

MalformedMoveLines ==
    { [tag |-> ">", colon |-> FALSE, name |-> "", rest |-> <<>>],
      Mv("A", <<Rack, <<"8", "H">>, <<"A", "B">> >>) }

PlacementLines ==
    { Mv("A", <<Rack, <<"8", "H">>, <<"A", "B">>, Plus("5"), <<"5">> >>),
      Mv("B", <<Rack, <<"h", "8">>, <<"C", "d">>, Plus("7"), <<"7">> >>),
      Mv("A", <<Rack, <<"1", "M">>, <<"E">>, <<"x">>, <<"8">> >>),
      Mv("Z", <<Rack, <<"I", "7">>, <<"H", ".", "I">>, Plus("4"), <<"4">> >>),
      Mv("A", <<Rack, <<"3", "O">>, <<"L", "M">>, Plus("2"), <<"2">> >>) }

WithdrawalLines ==
    { Mv("A", <<Rack, DashDash, <<"-", "5">>, <<"1">> >>),
      \* the total before the placement of 8H AB on a fresh game
      Mv("A", <<Rack, DashDash, <<"-", "5">>, <<"0">> >>),
      Mv("B", <<Rack, DashDash, <<"x">>, <<"3">> >>),
      Mv("Z", <<Rack, DashDash, <<"-", "7">>, <<"x">> >>),
      Mv("B", <<Rack, DashDash, <<"-", "7">>, <<"2">>, <<"y">> >>) }

OtherMoveLines ==
    { \* word field "-XY": the exchange branch
      Mv("A", <<Rack, <<"8", "A">>, <<"-", "X", "Y">>, Plus("0"), <<"q">> >>),
      \* an exchange as GCG files write it: -TILES +0 TOTAL
      Mv("B", <<Rack, <<"-", "X", "Y">>, Plus("0"), <<"7">> >>),
      Mv("A", <<Rack, Challenge, Plus("5"), <<"w">> >>),
      Mv("B", <<Rack, Time, <<"-", "1", "0">>, <<"6">> >>),
      \* a parenthesised word field: the end-of-game branch
      Mv("A", <<Rack, <<"8", "H">>, <<"(", "Q", ")">>, Plus("2"), <<"y">> >>),
      Mv("Z", <<Rack, <<"8", "H">>, <<"(", "Q", ")">>, Plus("2"), <<"1", "1">> >>),
      \* an anchor parse_coord rejects: the pass branch
      Mv("B", <<Rack, <<"p", "a", "s", "s">>, <<"X">>, Plus("0"), <<"4">> >>),
      Mv("A", <<Rack, <<"P", "8">>, <<"X">>, <<"z">>, <<"4">> >>) }

LogLines ==
    HeaderLines \cup MalformedMoveLines \cup PlacementLines
        \cup WithdrawalLines \cup OtherMoveLines

----------------------------------------------------------------------------
(* GameState.copy and the object store.  parse_gcg keeps one working       *)
(* GameState (`state`) and a list of the objects copy() returned.          *)

\* the reference held by parse_gcg's local `state`
StateRef == 0

\* states.append(state): the list would hold the working object itself
GameState_copy_alias(h, ref) == [heap |-> h, ref |-> ref]

\* copy.deepcopy(self): a fresh object holding the same value
GameState_copy(h, ref) ==
    LET new == Cardinality(DOMAIN h)
    IN  [heap |-> (new :> h[ref]) @@ h, ref |-> new]

\* states[i] of the code, i from 0
Snap(i) == heap[states[i + 1]]
Working == heap[StateRef]
LastIdx == Len(states) - 1

----------------------------------------------------------------------------
(* parse_gcg                                                               *)

InitReplay ==
    LET cp == GameState_copy((StateRef :> NewGameState), StateRef)
    IN  /\ heap = cp.heap
        /\ states = <<cp.ref>>
        /\ nicknames = <<>>
        /\ pending_phony = None
        /\ pc = "loop"
        /\ nread = 0
        /\ hist = <<>>
        /\ nmove = 0

Init ==
    /\ InitReplay
    /\ fin = <<>>
    /\ fout = <<>>
    /\ fpc = "unused"

\* a '>' line with at least four fields after its ':'
HasFourFields(line) == line.tag = ">" /\ Len(line.rest) >= 4

Reading(line) ==
    /\ pc = "loop"
    /\ nread < MaxLines
    /\ line \in LogLines
    /\ nread' = nread + 1
    /\ nmove' = IF HasFourFields(line) THEN nmove + 1 ELSE nmove

\* a line that changes the working state only
UpdateState(st) ==
    /\ heap' = [heap EXCEPT ![StateRef] = st]
    /\ UNCHANGED <<states, hist, pc, pureVars>>

\* an uncaught exception leaves parse_gcg
Raise ==
    /\ pc' = "raised"
    /\ UNCHANGED <<heap, states, nicknames, pending_phony, hist, pureVars>>

\* line 160: line.split(None, 1)[1] is an IndexError when nothing follows the tag
HeaderLexicon(line) ==
    /\ Reading(line)
    /\ line.tag = "#lexicon"
    /\ line.rest # <<>>
    /\ UpdateState([Working EXCEPT !.lexicon = join(<<" ">>, line.rest)])
    /\ UNCHANGED <<nicknames, pending_phony>>

HeaderLexiconRaises(line) ==
    /\ Reading(line)
    /\ line.tag = "#lexicon"
    /\ line.rest = <<>>
    /\ Raise

HeaderId(line) ==
    /\ Reading(line)
    /\ line.tag = "#id"
    /\ UpdateState(IF Len(line.rest) >= 2
                   THEN [Working EXCEPT !.game_id = line.rest[2]]
                   ELSE Working)
    /\ UNCHANGED <<nicknames, pending_phony>>

HeaderPlayer(line, tag, p, default) ==
    LET nickname == IF Len(line.rest) >= 1 THEN line.rest[1] ELSE default
        fullname == IF Len(line.rest) >= 2 THEN line.rest[2] ELSE nickname
    IN  /\ Reading(line)
        /\ line.tag = tag
        /\ UpdateState([Working EXCEPT !.players[p] = fullname])
        /\ nicknames' = (fullname :> p) @@ (nickname :> p) @@ nicknames
        /\ UNCHANGED pending_phony

HeaderPlayer1(line) == HeaderPlayer(line, "#player1", 0, "Player1")
HeaderPlayer2(line) == HeaderPlayer(line, "#player2", 1, "Player2")

HeaderTags == {"#lexicon", "#id", "#player1", "#player2"}

\* lines 179-180: neither a header nor a move line
SkipLine(line) ==
    /\ Reading(line)
    /\ line.tag \notin HeaderTags \cup {">"}
    /\ UNCHANGED <<heap, states, nicknames, pending_phony, hist, pc, pureVars>>

\* line 188: line.index(":") is a ValueError when the line has no ':'
MoveNoColonRaises(line) ==
    /\ Reading(line)
    /\ line.tag = ">"
    /\ ~line.colon
    /\ Raise

\* a field count check that demands the total field
too_short_five(rest) == Len(rest) < 5

\* line 192
too_short(rest) == Len(rest) < 4

\* lines 192-193
MoveTooShort(line) ==
    /\ Reading(line)
    /\ line.tag = ">"
    /\ line.colon
    /\ too_short(line.rest)
    /\ UNCHANGED <<heap, states, nicknames, pending_phony, hist, pc, pureVars>>

\* a line that reaches the move handling of lines 195-275
IsMove(line) == line.tag = ">" /\ line.colon /\ ~too_short(line.rest)

coord_of(line) == line.rest[2]
word_of(line) == line.rest[3]
score_str_of(line) == line.rest[4]

\* a missing total that reads as no number
total_str_of_none(line) == IF Len(line.rest) > 4 THEN line.rest[5] ELSE <<>>

\* line 199
total_str_of(line) == IF Len(line.rest) > 4 THEN line.rest[5] ELSE <<"0">>

\* lines 202-205
pidx_of(line, nick, st) ==
    IF line.name \in DOMAIN nick THEN nick[line.name] ELSE st.on_turn

\* the except branch falling back to 0 instead of the running score
total_of_zero(line, st, pidx) ==
    IF int(lstrip_plus(score_str_of(line))).ok /\ int(total_str_of(line)).ok
    THEN int(total_str_of(line)).val
    ELSE 0

\* lines 210-215: the total the try block leaves
total_of(line, st, pidx) ==
    IF int(lstrip_plus(score_str_of(line))).ok /\ int(total_str_of(line)).ok
    THEN int(total_str_of(line)).val
    ELSE st.scores[pidx]

\* lines 221-224: the total of a withdrawal line
withdrawal_total(line, st, pidx) ==
    IF int(line.rest[4]).ok THEN int(line.rest[4]).val ELSE st.scores[pidx]

\* line 208
with_rack(st, line, pidx) == [st EXCEPT !.racks[pidx] = line.rest[1]]

\* the exchange test applied before the withdrawal test
is_withdrawal_unless_exchange(line) ==
    coord_of(line) = DashDash /\ ~(word_of(line)[1] = "-" /\ Len(word_of(line)) > 1)

\* line 218
is_withdrawal(line) == coord_of(line) = DashDash
is_exchange(line) == word_of(line)[1] = "-" /\ Len(word_of(line)) > 1
is_event(line) ==
    \/ coord_of(line) \in {Challenge, Time}
    \/ ~isalnum(coord_of(line)[1])
is_end_adjust(line) ==
    word_of(line)[1] = "(" /\ word_of(line)[Len(word_of(line))] = ")"

\* states.append(state.copy()) after the working state became st
AppendSnapshot(st, line, branch, pidx) ==
    LET cp == GameState_copy([heap EXCEPT ![StateRef] = st], StateRef)
    IN  /\ heap' = cp.heap
        /\ states' = Append(states, cp.ref)
        /\ hist' = Append(hist, [line |-> line, branch |-> branch, pidx |-> pidx])
        /\ UNCHANGED <<nicknames, pc, pureVars>>

\* a withdrawal that puts the withdrawing player back on turn
withdrawal_update_replays(st, line, pidx, pending) ==
    LET st1 == [st EXCEPT !.scores[pidx] = withdrawal_total(line, st, pidx),
                          !.on_turn = pidx]
    IN  IF pending # None
        THEN [st1 EXCEPT !.board = remove_word(st1.board, pending[1].word, pending[1].row,
                                               pending[1].col, pending[1].horizontal)]
        ELSE st1

\* a withdrawal that takes the withdrawn placement off the turn counter
withdrawal_update_uncounts(st, line, pidx, pending) ==
    LET st1 == [st EXCEPT !.scores[pidx] = withdrawal_total(line, st, pidx)]
    IN  IF pending # None
        THEN [st1 EXCEPT !.board = remove_word(st1.board, pending[1].word, pending[1].row,
                                               pending[1].col, pending[1].horizontal),
                         !.turn = @ - 1]
        ELSE st1

\* lines 225-229: the working state after a withdrawal line
withdrawal_update(st, line, pidx, pending) ==
    LET st1 == [st EXCEPT !.scores[pidx] = withdrawal_total(line, st, pidx)]
    IN  IF pending # None
        THEN [st1 EXCEPT !.board = remove_word(st1.board, pending[1].word, pending[1].row,
                                               pending[1].col, pending[1].horizontal)]
        ELSE st1

\* a withdrawal that leaves the pending placement in the slot
Withdrawal_keeps_pending(line) ==
    LET pidx == pidx_of(line, nicknames, Working)
        st0  == with_rack(Working, line, pidx)
    IN  /\ Reading(line)
        /\ IsMove(line)
        /\ is_withdrawal(line)
        /\ UNCHANGED pending_phony
        /\ AppendSnapshot(withdrawal_update(st0, line, pidx, pending_phony),
                          line, "withdrawal", pidx)

\* lines 218-232
Withdrawal(line) ==
    LET pidx == pidx_of(line, nicknames, Working)
        st0  == with_rack(Working, line, pidx)
    IN  /\ Reading(line)
        /\ IsMove(line)
        /\ is_withdrawal(line)
        /\ pending_phony' = None
        /\ AppendSnapshot(withdrawal_update(st0, line, pidx, pending_phony),
                          line, "withdrawal", pidx)

\* lines 239-240
exchange_update(st, line, pidx) ==
    [st EXCEPT !.scores[pidx] = total_of(line, st, pidx), !.on_turn = 1 - pidx]

\* lines 237-242
Exchange(line) ==
    LET pidx == pidx_of(line, nicknames, Working)
        st0  == with_rack(Working, line, pidx)
    IN  /\ Reading(line)
        /\ IsMove(line)
        /\ ~is_withdrawal(line)
        /\ is_exchange(line)
        /\ pending_phony' = None
        /\ AppendSnapshot(exchange_update(st0, line, pidx), line, "exchange", pidx)

\* an event line that passes the turn as an exchange does
event_update_advances(st, line, pidx) ==
    [st EXCEPT !.scores[pidx] = total_of(line, st, pidx), !.on_turn = 1 - pidx]

\* line 246
event_update(st, line, pidx) ==
    [st EXCEPT !.scores[pidx] = total_of(line, st, pidx)]

\* lines 244-248
Event(line) ==
    LET pidx == pidx_of(line, nicknames, Working)
        st0  == with_rack(Working, line, pidx)
    IN  /\ Reading(line)
        /\ IsMove(line)
        /\ ~is_withdrawal(line)
        /\ ~is_exchange(line)
        /\ is_event(line)
        /\ pending_phony' = None
        /\ AppendSnapshot(event_update(st0, line, pidx), line, "event", pidx)

\* an end-of-game line that sets the opponent's score as well
end_adjust_update_both(st, line, pidx) ==
    [st EXCEPT !.scores[pidx] = total_of(line, st, pidx),
               !.scores[1 - pidx] = total_of(line, st, pidx)]

\* line 252
end_adjust_update(st, line, pidx) ==
    [st EXCEPT !.scores[pidx] = total_of(line, st, pidx)]

\* lines 250-254
EndAdjust(line) ==
    LET pidx == pidx_of(line, nicknames, Working)
        st0  == with_rack(Working, line, pidx)
    IN  /\ Reading(line)
        /\ IsMove(line)
        /\ ~is_withdrawal(line)
        /\ ~is_exchange(line)
        /\ ~is_event(line)
        /\ is_end_adjust(line)
        /\ pending_phony' = None
        /\ AppendSnapshot(end_adjust_update(st0, line, pidx), line, "end_adjust", pidx)

\* a line that reaches `# Regular play or pass`
IsPlay(line) ==
    /\ IsMove(line)
    /\ ~is_withdrawal(line)
    /\ ~is_exchange(line)
    /\ ~is_event(line)
    /\ ~is_end_adjust(line)

\* a pass that leaves the turn order as it was
pass_update_stays(st, line, pidx) ==
    [st EXCEPT !.scores[pidx] = total_of(line, st, pidx)]

\* lines 261-262
pass_update(st, line, pidx) ==
    [st EXCEPT !.scores[pidx] = total_of(line, st, pidx), !.on_turn = 1 - pidx]

\* lines 257-264
Pass(line) ==
    LET pidx == pidx_of(line, nicknames, Working)
        st0  == with_rack(Working, line, pidx)
    IN  /\ Reading(line)
        /\ IsPlay(line)
        /\ ~parse_coord(coord_of(line)).ok
        /\ pending_phony' = None
        /\ AppendSnapshot(pass_update(st0, line, pidx), line, "pass", pidx)

\* a placement that does not count the turn
placement_update_no_turn(st, line, pidx, at) ==
    [st EXCEPT !.board = place_word(st.board, word_of(line), at.row, at.col,
                                    at.horizontal),
               !.scores[pidx] = total_of(line, st, pidx),
               !.on_turn = 1 - pidx]

\* a placement that flips on_turn instead of setting it from the mover
placement_update_flips(st, line, pidx, at) ==
    [st EXCEPT !.board = place_word(st.board, word_of(line), at.row, at.col,
                                    at.horizontal),
               !.scores[pidx] = total_of(line, st, pidx),
               !.on_turn = 1 - @,
               !.turn = @ + 1]

\* lines 267-274: the working state after a placement at `at`
placement_update(st, line, pidx, at) ==
    [st EXCEPT !.board = place_word(st.board, word_of(line), at.row, at.col,
                                    at.horizontal),
               !.scores[pidx] = total_of(line, st, pidx),
               !.on_turn = 1 - pidx,
               !.turn = @ + 1]

\* lines 266-275
Placement(line) ==
    LET pidx == pidx_of(line, nicknames, Working)
        st0  == with_rack(Working, line, pidx)
        at   == parse_coord(coord_of(line))
    IN  /\ Reading(line)
        /\ IsPlay(line)
        /\ at.ok
        /\ WritesInRange(word_of(line), at.row, at.col, at.horizontal)
        /\ pending_phony' = <<Play(word_of(line), at.row, at.col, at.horizontal)>>
        /\ AppendSnapshot(placement_update(st0, line, pidx, at), line, "placement", pidx)

\* line 267: place_word indexes past the edge of the board, an IndexError
\* that parse_gcg does not catch
PlacementRaises(line) ==
    LET at == parse_coord(coord_of(line))
    IN  /\ Reading(line)
        /\ IsPlay(line)
        /\ at.ok
        /\ ~WritesInRange(word_of(line), at.row, at.col, at.horizontal)
        /\ Raise

\* line 277, at the end of the log
Return ==
    /\ pc = "loop"
    /\ pc' = "returned"
    /\ UNCHANGED <<heap, states, nicknames, pending_phony, nread, hist, nmove, pureVars>>

Next ==
    \/ \E line \in LogLines : HeaderLexicon(line)
    \/ \E line \in LogLines : HeaderLexiconRaises(line)
    \/ \E line \in LogLines : HeaderId(line)
    \/ \E line \in LogLines : HeaderPlayer1(line)
    \/ \E line \in LogLines : HeaderPlayer2(line)
    \/ \E line \in LogLines : SkipLine(line)
    \/ \E line \in LogLines : MoveNoColonRaises(line)
    \/ \E line \in LogLines : MoveTooShort(line)
    \/ \E line \in LogLines : Withdrawal(line)
    \/ \E line \in LogLines : Exchange(line)
    \/ \E line \in LogLines : Event(line)
    \/ \E line \in LogLines : EndAdjust(line)
    \/ \E line \in LogLines : Pass(line)
    \/ \E line \in LogLines : Placement(line)
    \/ \E line \in LogLines : PlacementRaises(line)
    \/ Return

Spec == Init /\ [][Next]_vars

----------------------------------------------------------------------------
(* Inputs of the pure functions: placements and the boards they build.     *)

\* placements that raise no IndexError; (7,7) is covered by two of them and
\* two lie beyond a run of ten or more empty cells
BoardPlays ==
    { Play(<<"A", "B">>, 7, 7, TRUE),
      Play(<<"C", "d">>, 7, 7, FALSE),
      Play(<<"E">>, 0, 12, TRUE),
      Play(<<"f", "G">>, 14, 13, TRUE),
      Play(<<"H", ".", "I">>, 6, 8, FALSE),
      Play(<<"J", "K">>, 0, 0, FALSE),
      \* row -1, the anchor "0D": Python's board[-1] is the last row
      Play(<<"N", "O">>, -1, 3, FALSE) }

\* a placement that runs off the right edge
OffBoardPlay == Play(<<"L", "M">>, 3, 14, TRUE)

ApplyPlay(board, p) == place_word(board, p.word, p.row, p.col, p.horizontal)

\* the boards built from the empty board by at most k placements
RECURSIVE BoardsAfter(_)
BoardsAfter(k) ==
    IF k = 0 THEN {EmptyBoard}
    ELSE LET prev == BoardsAfter(k - 1)
         IN  prev \cup {ApplyPlay(b, p) : b \in prev, p \in BoardPlays}

TestBoards == BoardsAfter(MaxPlays)

\* scores and racks of the states given to to_cgp
CodecScores == {[p \in {0, 1} |-> 0], [p \in {0, 1} |-> IF p = 0 THEN 12 ELSE 305]}
CodecRacks == {<<>>, <<"Q", "?">>}

InitReplayIdle ==
    /\ heap = (StateRef :> NewGameState)
    /\ states = <<>>
    /\ nicknames = <<>>
    /\ pending_phony = None
    /\ pc = "idle"
    /\ nread = 0
    /\ hist = <<>>
    /\ nmove = 0

----------------------------------------------------------------------------
(* SpecCodec: to_cgp, then board_occupancy and board_letters on its output *)

InitCodec ==
    /\ InitReplayIdle
    /\ fin \in {[gs |-> [NewGameState EXCEPT !.board = b, !.scores = sc, !.on_turn = t,
                                               !.racks = [p \in {0, 1} |-> rk]]] :
                   b \in TestBoards, sc \in CodecScores, rk \in CodecRacks, t \in {0, 1}}
    /\ fout = [cgp |-> <<>>]
    /\ fpc = "input"

Encode ==
    /\ fpc = "input"
    /\ fout' = [cgp |-> to_cgp(fin.gs)]
    /\ fpc' = "encoded"
    /\ UNCHANGED <<fin, replayVars>>

Decode ==
    /\ fpc = "encoded"
    /\ fout' = [cgp     |-> fout.cgp,
                occ     |-> board_occupancy(fout.cgp),
                letters |-> board_letters(fout.cgp)]
    /\ fpc' = "decoded"
    /\ UNCHANGED <<fin, replayVars>>

NextCodec == Encode \/ Decode

SpecCodec == InitCodec /\ [][NextCodec]_vars

\* what the board holds: the occupied cells and their upper-cased letters
Occupied(board) == {pos \in Idx \X Idx : board[pos[1]][pos[2]].letter # ""}
LetterMap(board) ==
    [pos \in Occupied(board) |-> upper(board[pos[1]][pos[2]].letter)]

\* C1: decoding the record to_cgp produces gives back exactly the occupied
\* cells of the board and the map from each of them to its upper-cased
\* letter, for every board (long empty runs included).
C1_RoundTrip ==
    fpc = "decoded" =>
        /\ fout.occ = Occupied(fin.gs.board)
        /\ DOMAIN fout.letters = Occupied(fin.gs.board)
        /\ \A pos \in Occupied(fin.gs.board) :
               fout.letters[pos] = LetterMap(fin.gs.board)[pos]

----------------------------------------------------------------------------
(* SpecBoard: place_word, then remove_word with the same arguments         *)

InitBoard ==
    /\ InitReplayIdle
    /\ fin \in {[board |-> b, play |-> p] :
                   b \in TestBoards, p \in BoardPlays \cup {OffBoardPlay}}
    /\ fout = [board |-> fin.board]
    /\ fpc = "input"

Place ==
    /\ fpc = "input"
    /\ WritesInRange(fin.play.word, fin.play.row, fin.play.col, fin.play.horizontal)
    /\ fout' = [board |-> place_word(fin.board, fin.play.word, fin.play.row,
                                     fin.play.col, fin.play.horizontal)]
    /\ fpc' = "placed"
    /\ UNCHANGED <<fin, replayVars>>

\* board[r][c] = ... with an index past the edge: IndexError
PlaceRaises ==
    /\ fpc = "input"
    /\ ~WritesInRange(fin.play.word, fin.play.row, fin.play.col, fin.play.horizontal)
    /\ fpc' = "raised"
    /\ UNCHANGED <<fin, fout, replayVars>>

Remove ==
    /\ fpc = "placed"
    /\ fout' = [board |-> remove_word(fout.board, fin.play.word, fin.play.row,
                                      fin.play.col, fin.play.horizontal)]
    /\ fpc' = "removed"
    /\ UNCHANGED <<fin, replayVars>>

NextBoard == Place \/ PlaceRaises \/ Remove

SpecBoard == InitBoard /\ [][NextBoard]_vars

\* the cells a placement writes: those of its characters other than '.'
Written(p) ==
    {<<PyIdx(WordPos(k, p.row, p.col, p.horizontal)[1]),
       PyIdx(WordPos(k, p.row, p.col, p.horizontal)[2])>> :
         k \in {j \in DOMAIN p.word : p.word[j] # "."}}

NoDots(word) == \A k \in DOMAIN word : word[k] # "."

\* C2 as stated: for every board, tiles under the word or not, and every
\* word without '.', place_word then remove_word gives the board back.
C2_PlaceRemoveAnyBoard ==
    (fpc = "removed" /\ NoDots(fin.play.word)) => fout.board = fin.board

\* C2 amended: place_word then remove_word gives the board back when the
\* cells the word covers were empty before the placement; in general the
\* result is the board with exactly the written cells emptied.
C2_PlaceRemoveEmptyCells ==
    fpc = "removed" =>
        /\ \A pos \in Idx \X Idx :
               fout.board[pos[1]][pos[2]] =
                   IF pos \in Written(fin.play) THEN EmptyCell
                   ELSE fin.board[pos[1]][pos[2]]
        /\ (\A pos \in Written(fin.play) : fin.board[pos[1]][pos[2]] = EmptyCell)
               => fout.board = fin.board

\* a word without '.' was placed on empty cells of a board that holds
\* other tiles, and removed again
C2_Witness ==
    /\ fpc = "removed"
    /\ NoDots(fin.play.word)
    /\ fin.board # EmptyBoard
    /\ \A pos \in Written(fin.play) : fin.board[pos[1]][pos[2]] = EmptyCell

\* the cell that holds the k-th character of the placed word
CellOf(board, p, k) ==
    LET pos == WordPos(k, p.row, p.col, p.horizontal)
    IN  board[PyIdx(pos[1])][PyIdx(pos[2])]

\* C17 as stated: place_word stores every lower-case character as its
\* upper-case letter with is_blank true, and every upper-case character as
\* itself with is_blank false.
C17_BlankStoredUpperCase ==
    fpc = "placed" =>
        \A k \in DOMAIN fin.play.word :
            LET ch == fin.play.word[k]
            IN  ch # "." =>
                    CellOf(fout.board, fin.play, k) = Cell(upper(ch), islower(ch))

\* C17 amended: place_word stores every character as it is given, a
\* lower-case one as that lower-case letter with is_blank true and an
\* upper-case one with is_blank false, so that to_cgp writes a blank-derived
\* tile in lower case; cells under '.' and all other cells are as before.
C17_BlankStoredAsGiven ==
    fpc = "placed" =>
        /\ \A k \in DOMAIN fin.play.word :
               LET ch == fin.play.word[k]
               IN  ch # "." =>
                       /\ CellOf(fout.board, fin.play, k) = Cell(ch, islower(ch))
                       /\ ch \in Range(cgp_row(fout.board[PyIdx(WordPos(k, fin.play.row,
                              fin.play.col, fin.play.horizontal)[1])], 0, 0, <<>>))
        /\ \A pos \in (Idx \X Idx) \ Written(fin.play) :
               fout.board[pos[1]][pos[2]] = fin.board[pos[1]][pos[2]]

\* a word with a lower-case and an upper-case letter was placed on a board
\* that holds other tiles
C17_Witness ==
    /\ fpc = "placed"
    /\ \E k \in DOMAIN fin.play.word : islower(fin.play.word[k])
    /\ \E k \in DOMAIN fin.play.word : isupper(fin.play.word[k])
    /\ fin.board # EmptyBoard
    /\ fout.board # fin.board

----------------------------------------------------------------------------
(* Python floats of match_game.py, held as exact fractions <<n, d>> in     *)
(* lowest terms with d > 0.  A double differs from its fraction by rounding *)
(* (0.6 + 0.3 + 0.1 is 0.9999999999999999), so the thresholds and inputs   *)
(* of SpecMatch are ones for which every comparison the code makes on the  *)
(* doubles comes out as it does on the fractions.                          *)

RECURSIVE GCD(_, _)
GCD(a, b) == IF b = 0 THEN a ELSE GCD(b, a % b)

Frac(n, d) ==
    LET g == GCD(IF n < 0 THEN -n ELSE n, d)
    IN  IF n = 0 THEN <<0, 1>> ELSE <<n \div g, d \div g>>

FAdd(a, b) == Frac(a[1] * b[2] + b[1] * a[2], a[2] * b[2])
FMul(a, b) == Frac(a[1] * b[1], a[2] * b[2])
FLess(a, b) == a[1] * b[2] < b[1] * a[2]
FGeq(a, b) == ~FLess(a, b)

----------------------------------------------------------------------------
(* occupancy_similarity / letter_accuracy / scores_from_cgp                *)

\* lines 67-75
occupancy_similarity(cgp_a, cgp_b) ==
    LET occ_a == board_occupancy(cgp_a)
        occ_b == board_occupancy(cgp_b)
        intersection == Cardinality(occ_a \cap occ_b)
        union == Cardinality(occ_a \cup occ_b)
    IN  IF occ_a = {} /\ occ_b = {} THEN Frac(1, 1)
        ELSE IF union > 0 THEN Frac(intersection, union) ELSE Frac(0, 1)

\* lines 77-87; letters_a.get(pos) is None for a key the dict lacks
letter_accuracy(cgp_ocr, cgp_truth) ==
    LET occ_a == board_occupancy(cgp_ocr)
        occ_b == board_occupancy(cgp_truth)
        common == occ_a \cap occ_b
        letters_a == board_letters(cgp_ocr)
        letters_b == board_letters(cgp_truth)
        get(letters, pos) == IF pos \in DOMAIN letters THEN <<letters[pos]>> ELSE None
        matches == Cardinality({pos \in common : get(letters_a, pos) = get(letters_b, pos)})
    IN  IF common = {} THEN Frac(0, 1) ELSE Frac(matches, Cardinality(common))

\* re.match of /\s*(\d+)\s+(\d+) at a '/' found at the head of s
scores_match_at(s) ==
    LET after  == skip_spaces(Tail(s))
        first  == take_while_digit(after)
        gap    == Drop(after, Len(first))
        second == take_while_digit(skip_spaces(gap))
    IN  IF first # <<>> /\ gap # <<>> /\ gap[1] = " " /\ second # <<>>
        THEN [ok |-> TRUE, s0 |-> DecVal(first), s1 |-> DecVal(second)]
        ELSE [ok |-> FALSE, s0 |-> 0, s1 |-> 0]

\* lines 93-99: re.search tries every position from the left; [ok |-> FALSE]
\* stands for (None, None)
RECURSIVE scores_from_cgp(_)
scores_from_cgp(cgp) ==
    IF cgp = <<>> THEN [ok |-> FALSE, s0 |-> 0, s1 |-> 0]
    ELSE IF cgp[1] = "/" /\ scores_match_at(cgp).ok THEN scores_match_at(cgp)
    ELSE scores_from_cgp(Tail(cgp))

----------------------------------------------------------------------------
(* find_matching_turn                                                      *)

\* tolerance=5 of find_matching_turn's signature
Tolerance == 5

Abs(x) == IF x < 0 THEN -x ELSE x
Min(x, y) == IF x < y THEN x ELSE y

\* line 116: the occupancy gate
OccGate == Frac(90, 100)

\* no bonus for the scores
score_bonus_none(truth_cgp, ocr_scores) == Frac(0, 1)

\* lines 123-133; ocr_scores is None or a one-element tuple of the pair
score_bonus(truth_cgp, ocr_scores) ==
    LET t      == scores_from_cgp(truth_cgp)
        o_s0   == ocr_scores[1][1]
        o_s1   == ocr_scores[1][2]
        diff_a == Abs(t.s0 - o_s0) + Abs(t.s1 - o_s1)
        diff_b == Abs(t.s0 - o_s1) + Abs(t.s1 - o_s0)
        diff   == Min(diff_a, diff_b)
    IN  IF ocr_scores # None /\ t.ok /\ diff <= Tolerance
        THEN FMul(Frac(1, 10), FAdd(Frac(1, 1), Frac(-diff, Tolerance * 10)))
        ELSE Frac(0, 1)

\* a weighting of 0.7 and 0.3, which sums to 1.0 before the bonus
combined_score_heavy(ocr_cgp, truth_cgp, ocr_scores) ==
    FAdd(FAdd(FMul(occupancy_similarity(ocr_cgp, truth_cgp), Frac(7, 10)),
              FMul(letter_accuracy(ocr_cgp, truth_cgp), Frac(3, 10))),
         score_bonus(truth_cgp, ocr_scores))

\* line 135
combined_score(ocr_cgp, truth_cgp, ocr_scores) ==
    FAdd(FAdd(FMul(occupancy_similarity(ocr_cgp, truth_cgp), Frac(6, 10)),
              FMul(letter_accuracy(ocr_cgp, truth_cgp), Frac(3, 10))),
         score_bonus(truth_cgp, ocr_scores))

\* lines 115-117
passes_gate(ocr_cgp, truth_cgp) ==
    ~FLess(occupancy_similarity(ocr_cgp, truth_cgp), OccGate)

\* the loop keeping the last snapshot that passes the gate, whatever it scores
RECURSIVE find_from_last(_, _, _, _, _)
find_from_last(ocr_cgp, states_, ocr_scores, i, best) ==
    IF i > Len(states_) - 1 THEN best
    ELSE LET state     == states_[i + 1]
             truth_cgp == to_cgp(state)
             combined  == combined_score(ocr_cgp, truth_cgp, ocr_scores)
         IN  IF ~passes_gate(ocr_cgp, truth_cgp)
             THEN find_from_last(ocr_cgp, states_, ocr_scores, i + 1, best)
             ELSE find_from_last(ocr_cgp, states_, ocr_scores, i + 1,
                                 <<i, combined, <<state>> >>)

\* lines 111-137: the loop from snapshot i on; states is the list parse_gcg
\* returned, a sequence whose first element is states[0]; best is
\* (turn_index, similarity_score, state) with state None or a 1-tuple
RECURSIVE find_from(_, _, _, _, _)
find_from(ocr_cgp, states_, ocr_scores, i, best) ==
    IF i > Len(states_) - 1 THEN best
    ELSE LET state     == states_[i + 1]
             truth_cgp == to_cgp(state)
             combined  == combined_score(ocr_cgp, truth_cgp, ocr_scores)
         IN  IF ~passes_gate(ocr_cgp, truth_cgp)
             THEN find_from(ocr_cgp, states_, ocr_scores, i + 1, best)
             ELSE IF FLess(best[2], combined)
             THEN find_from(ocr_cgp, states_, ocr_scores, i + 1,
                            <<i, combined, <<state>> >>)
             ELSE find_from(ocr_cgp, states_, ocr_scores, i + 1, best)

\* lines 105-139
find_matching_turn(ocr_cgp, states_, ocr_scores) ==
    find_from(ocr_cgp, states_, ocr_scores, 1, <<0, Frac(0, 1), None>>)

----------------------------------------------------------------------------
(* parse_gcg as match_screenshot calls it: the whole replay of one log as  *)
(* a function, built from the same updates as the actions above.  The      *)
(* result holds the snapshots as values, states[0] first.                  *)

\* lines 155-275 for one line; acc holds state, nicknames, pending_phony,
\* states and whether an exception left the function
parse_gcg_line(acc, line) ==
    LET st      == acc.state
        pidx    == pidx_of(line, acc.nicknames, st)
        st0     == with_rack(st, line, pidx)
        at      == parse_coord(coord_of(line))
        raise   == [acc EXCEPT !.raised = TRUE]
        header(p, default) ==
            LET nickname == IF Len(line.rest) >= 1 THEN line.rest[1] ELSE default
                fullname == IF Len(line.rest) >= 2 THEN line.rest[2] ELSE nickname
            IN  [acc EXCEPT !.state = [st EXCEPT !.players[p] = fullname],
                            !.nicknames = (fullname :> p) @@ (nickname :> p) @@ @]
        append(st1, pending) ==
            [acc EXCEPT !.state = st1, !.pending_phony = pending,
                        !.states = Append(@, st1)]
    IN  IF acc.raised THEN acc
        ELSE IF line.tag = "#lexicon"
        THEN IF line.rest = <<>> THEN raise
             ELSE [acc EXCEPT !.state = [st EXCEPT !.lexicon = join(<<" ">>, line.rest)]]
        ELSE IF line.tag = "#id"
        THEN IF Len(line.rest) >= 2
             THEN [acc EXCEPT !.state = [st EXCEPT !.game_id = line.rest[2]]]
             ELSE acc
        ELSE IF line.tag = "#player1" THEN header(0, "Player1")
        ELSE IF line.tag = "#player2" THEN header(1, "Player2")
        ELSE IF line.tag # ">" THEN acc
        ELSE IF ~line.colon THEN raise
        ELSE IF too_short(line.rest) THEN acc
        ELSE IF is_withdrawal(line)
        THEN append(withdrawal_update(st0, line, pidx, acc.pending_phony), None)
        ELSE IF is_exchange(line) THEN append(exchange_update(st0, line, pidx), None)
        ELSE IF is_event(line) THEN append(event_update(st0, line, pidx), None)
        ELSE IF is_end_adjust(line) THEN append(end_adjust_update(st0, line, pidx), None)
        ELSE IF ~at.ok THEN append(pass_update(st0, line, pidx), None)
        ELSE IF ~WritesInRange(word_of(line), at.row, at.col, at.horizontal) THEN raise
        ELSE append(placement_update(st0, line, pidx, at),
                    <<Play(word_of(line), at.row, at.col, at.horizontal)>>)

RECURSIVE parse_gcg_from(_, _)
parse_gcg_from(acc, lines) ==
    IF lines = <<>> THEN acc
    ELSE parse_gcg_from(parse_gcg_line(acc, lines[1]), Tail(lines))

\* lines 135-277
parse_gcg(lines) ==
    parse_gcg_from([state |-> NewGameState, nicknames |-> <<>>,
                    pending_phony |-> None, states |-> <<NewGameState>>,
                    raised |-> FALSE], lines)

----------------------------------------------------------------------------
(* The candidate supply of match_screenshot: game id -> log.  An id absent *)
(* from GcgText has no cached log and none can be fetched.                 *)

Move(name, coord, word, score, total) == Mv(name, <<Rack, coord, word, score, total>>)

Player1Line == Hdr("#player1", <<"A", "Alice">>)
Player2Line == Hdr("#player2", <<"B">>)

\* three placements: 5, 8 and 10 tiles on the board
OpeningMoves ==
    << Player1Line, Player2Line,
       Move("A", <<"8", "D">>, <<"A", "B", "C", "D", "E">>, <<"+", "1", "0">>, <<"1", "0">>),
       Move("B", <<"E", "7">>, <<"F", ".", "G", "H">>, Plus("8"), <<"8">>),
       Move("A", <<"1", "0", "E">>, <<".", "I", "J">>, Plus("6"), <<"1", "6">>) >>

\* an exchange as GCG files write it (four fields), a challenge bonus and a pass
ExchangeMove == Mv("B", <<Rack, <<"-", "X", "Y">>, Plus("0"), <<"8">> >>)
BonusMove == Move("A", Challenge, Plus("5"), Plus("5"), <<"2", "1">>)
PassMoveB == Move("B", <<"p", "a", "s", "s">>, <<"X">>, Plus("0"), <<"8">>)
PassMoveA == Move("A", <<"p", "a", "s", "s">>, <<"X">>, Plus("0"), <<"2", "1">>)
\* a time penalty that leaves a negative score
PenaltyMove == Move("B", Time, <<"X">>, <<"-", "5">>, <<"-", "5">>)

GcgText ==
    [g \in {"g1", "g1b", "g2", "g3", "g4", "g5", "g6", "g7", "gbad"} |->
        CASE g \in {"g1", "g1b"} ->
                 \* snapshot 7 is a placement
                 OpeningMoves \o <<ExchangeMove, BonusMove, PassMoveB,
                     Move("A", <<"1", "1", "E">>, <<"K">>, Plus("3"), <<"2", "4">>)>>
          [] g = "g2" ->
                 \* snapshot 7 is a pass that leaves board and scores as they were
                 OpeningMoves \o <<ExchangeMove, BonusMove, PassMoveB, PassMoveA>>
          [] g = "g3" ->
                 \* seven lines and no tile
                 <<Player1Line, Player2Line, ExchangeMove, BonusMove, PassMoveB,
                   ExchangeMove, BonusMove, PassMoveB, PassMoveA>>
          [] g = "g4" ->
                 <<Player1Line, Player2Line, OpeningMoves[3]>>
          [] g = "g5" ->
                 <<Player1Line, Move("A", <<"1", "D">>, <<"E">>, Plus("3"), <<"3">>)>>
          [] g = "g6" ->
                 <<Player1Line, Move("A", <<"1", "M">>, <<"E">>, Plus("3"), <<"3">>)>>
          [] g = "g7" ->
                 <<Player1Line, Player2Line, OpeningMoves[3], PenaltyMove>>
          [] g = "gbad" ->
                 \* a log parse_gcg raises on
                 <<Player1Line, Hdr("#lexicon", <<>>), OpeningMoves[3]>> ]

\* the ids a search may be given; "gmiss" has no log
GameIds == DOMAIN GcgText \cup {"gmiss"}

\* parse_gcg(gcg_text) of every log
Replayed == [g \in DOMAIN GcgText |-> parse_gcg(GcgText[g])]

\* the observations: the record of a snapshot of a game
ObservedSnapshots ==
    { <<"g1", 7>>, <<"g2", 7>>, <<"g3", 7>>, <<"g6", 1>>, <<"g1", 3>>, <<"g7", 2>> }

ObservedState(obs) == Replayed[obs[1]].states[obs[2] + 1]

\* ocr_scores: None, or the pair read exactly, in the other order, or with
\* the first score off by three
ScoresRead(gs) ==
    { None, << <<gs.scores[0], gs.scores[1]>> >>, << <<gs.scores[1], gs.scores[0]>> >>,
      << <<gs.scores[0] + 3, gs.scores[1]>> >> }

\* min_similarity=0.85 of match_screenshot's signature
DefaultMinSimilarity == Frac(85, 100)

\* the thresholds a caller passes
MinSimilarities == {Frac(50, 100), DefaultMinSimilarity, Frac(995, 1000)}

\* the arguments (ocr_cgp, ocr_scores) the searches are run with
SearchArguments ==
    UNION {{[ocr_cgp |-> to_cgp(ObservedState(obs)), ocr_scores |-> sc, obs |-> obs] :
               sc \in ScoresRead(ObservedState(obs))} : obs \in ObservedSnapshots}

\* find_matching_turn(ocr_cgp, states, ocr_scores) for every search argument
\* and every replayed log
TurnFound ==
    [a \in SearchArguments, g \in {h \in DOMAIN GcgText : ~Replayed[h].raised} |->
        find_matching_turn(a.ocr_cgp, Replayed[g].states, a.ocr_scores)]

----------------------------------------------------------------------------
(* SpecMatch: match_screenshot.  fin holds its arguments and the candidate *)
(* ids collected at lines 157-171; fout holds its locals: the ids the loop *)
(* of line 181 has not visited yet, best_match, best_sim, and the record   *)
(* of what was done with each visited id.                                  *)

\* line 217
Confident == Frac(98, 100)

\* a search that never stops early
confident_never(sim) == FALSE

\* line 217
confident(sim) == FGeq(sim, Confident)

\* an acceptance that ignores min_similarity
accepted_any(best_match, best_sim, min_similarity) == best_match # None

\* line 220
accepted(best_match, best_sim, min_similarity) ==
    best_match # None /\ FGeq(best_sim, min_similarity)

InitMatch ==
    /\ InitReplayIdle
    /\ fin \in {[ocr_cgp |-> a.ocr_cgp, ocr_scores |-> a.ocr_scores, obs |-> a.obs,
                 min_similarity |-> m, candidate_ids |-> ids] :
                   a \in SearchArguments, m \in MinSimilarities,
                   ids \in {c \in SUBSET GameIds : Cardinality(c) <= MaxCandidates}}
    /\ fout = [candidate_ids |-> fin.candidate_ids, best_match |-> None,
               best_sim |-> Frac(0, 1), scanned |-> <<>>, result |-> None]
    /\ fpc = "scan"

\* the loop of line 181 takes an id the set still holds, in no fixed order
Visit(game_id) ==
    /\ fpc = "scan"
    /\ game_id \in fout.candidate_ids
    /\ UNCHANGED <<fin, replayVars>>

Visited(game_id, outcome, turn_idx, sim) ==
    Append(fout.scanned, [game_id |-> game_id, outcome |-> outcome,
                          turn |-> turn_idx, similarity |-> sim])

\* lines 185-195: no cached log and none fetched
FetchFails(game_id) ==
    /\ Visit(game_id)
    /\ game_id \notin DOMAIN GcgText
    /\ fout' = [fout EXCEPT !.candidate_ids = @ \ {game_id},
                            !.scanned = Visited(game_id, "unavailable", 0, Frac(0, 1))]
    /\ fpc' = "scan"

\* lines 200-204: parse_gcg raised
ParseError(game_id) ==
    /\ Visit(game_id)
    /\ game_id \in DOMAIN GcgText
    /\ Replayed[game_id].raised
    /\ fout' = [fout EXCEPT !.candidate_ids = @ \ {game_id},
                            !.scanned = Visited(game_id, "parse_error", 0, Frac(0, 1))]
    /\ fpc' = "scan"

\* lines 206-218
ScoreCandidate(game_id) ==
    LET found    == TurnFound[[ocr_cgp |-> fin.ocr_cgp, ocr_scores |-> fin.ocr_scores,
                               obs |-> fin.obs], game_id]
        turn_idx == found[1]
        sim      == found[2]
        state    == found[3]
        better   == FLess(fout.best_sim, sim)
        match    == [game_id    |-> game_id,
                     turn       |-> turn_idx,
                     golden_cgp |-> IF state # None THEN <<to_cgp(state[1])>> ELSE None,
                     similarity |-> sim,
                     players    |-> IF state # None THEN state[1].players ELSE <<>>]
    IN  /\ Visit(game_id)
        /\ game_id \in DOMAIN GcgText
        /\ ~Replayed[game_id].raised
        /\ fout' = [fout EXCEPT
                      !.candidate_ids = @ \ {game_id},
                      !.scanned = Visited(game_id, "scored", turn_idx, sim),
                      !.best_sim = IF better THEN sim ELSE @,
                      !.best_match = IF better THEN <<match>> ELSE @]
        /\ fpc' = IF better /\ confident(sim) THEN "accept" ELSE "scan"

\* the loop of line 181 has visited every id
LoopEnds ==
    /\ fpc = "scan"
    /\ fout.candidate_ids = {}
    /\ fpc' = "accept"
    /\ UNCHANGED <<fin, fout, replayVars>>

\* lines 220-223
ReturnMatch ==
    /\ fpc = "accept"
    /\ accepted(fout.best_match, fout.best_sim, fin.min_similarity)
    /\ fout' = [fout EXCEPT !.result = fout.best_match]
    /\ fpc' = "returned"
    /\ UNCHANGED <<fin, replayVars>>

\* lines 225-226
ReturnNone ==
    /\ fpc = "accept"
    /\ ~accepted(fout.best_match, fout.best_sim, fin.min_similarity)
    /\ fout' = [fout EXCEPT !.result = None]
    /\ fpc' = "returned"
    /\ UNCHANGED <<fin, replayVars>>

NextMatch ==
    \/ \E game_id \in GameIds : FetchFails(game_id)
    \/ \E game_id \in GameIds : ParseError(game_id)
    \/ \E game_id \in GameIds : ScoreCandidate(game_id)
    \/ LoopEnds
    \/ ReturnMatch
    \/ ReturnNone

SpecMatch == InitMatch /\ [][NextMatch]_vars

\* the logs parse_gcg replays without raising
Parsed == {g \in DOMAIN GcgText : ~Replayed[g].raised}

\* snapshot i of a replayed log, its record, and what match_game.py decodes
\* from the record
Snapshot(g, i) == Replayed[g].states[i + 1]
Turns(g) == 1 .. (Len(Replayed[g].states) - 1)
RecordOf == [g \in Parsed |-> [i \in Turns(g) |-> to_cgp(Snapshot(g, i))]]
DecodedOf ==
    [g \in Parsed |-> [i \in Turns(g) |->
        [occ |-> board_occupancy(RecordOf[g][i]), letters |-> board_letters(RecordOf[g][i])]]]

\* the cells a snapshot's board holds, and the Jaccard ratio of two such sets
CellsOf == [g \in Parsed |-> [i \in Turns(g) |-> Occupied(Snapshot(g, i).board)]]
Jaccard(a, b) ==
    IF a \cup b = {} THEN Frac(1, 1)
    ELSE Frac(Cardinality(a \cap b), Cardinality(a \cup b))

Scanned == 1 .. Len(fout.scanned)
ScoredAt(j) == fout.scanned[j].outcome = "scored"

\* snapshot k of candidate g has the observed record byte for byte and the
\* observed scores exactly
IsTarget(g, k) ==
    /\ g \in Parsed /\ k \in Turns(g)
    /\ RecordOf[g][k] = fin.ocr_cgp
    /\ fin.ocr_scores = << <<Snapshot(g, k).scores[0], Snapshot(g, k).scores[1]>> >>

ScoresOf == [g \in Parsed |-> [i \in Turns(g) |-> scores_from_cgp(RecordOf[g][i])]]

\* the first snapshot of g that match_game.py cannot tell from snapshot k:
\* the same decoded cells and letters, and a record from which the two
\* scores of snapshot k are read in either order
FirstLike(g, k) ==
    LET like(i) ==
            /\ DecodedOf[g][i] = DecodedOf[g][k]
            /\ ScoresOf[g][i].ok
            /\ \/ /\ ScoresOf[g][i].s0 = Snapshot(g, k).scores[0]
                  /\ ScoresOf[g][i].s1 = Snapshot(g, k).scores[1]
               \/ /\ ScoresOf[g][i].s0 = Snapshot(g, k).scores[1]
                  /\ ScoresOf[g][i].s1 = Snapshot(g, k).scores[0]
    IN  CHOOSE i \in 1 .. k : like(i) /\ \A j \in 1 .. (i - 1) : ~like(j)

\* the record holds a tile and scores_from_cgp reads its two scores back: it
\* does when neither is negative and the rack does not begin with a digit
Scorable(g, k) ==
    /\ CellsOf[g][k] # {}
    /\ ScoresOf[g][k].ok
    /\ ScoresOf[g][k].s0 = Snapshot(g, k).scores[0]
    /\ ScoresOf[g][k].s1 = Snapshot(g, k).scores[1]

C12_EarlyExit ==
    \A j \in Scanned :
        (ScoredAt(j) /\ FGeq(fout.scanned[j].similarity, Confident)) =>
            /\ j = Len(fout.scanned)
            /\ fpc # "scan"
            /\ fout.best_match # None
            /\ fout.best_match[1].game_id = fout.scanned[j].game_id
            /\ fout.best_match[1].turn = fout.scanned[j].turn
            /\ fpc = "returned" =>
                   /\ fout.result # None => fout.result = fout.best_match
                   /\ FGeq(fout.scanned[j].similarity, fin.min_similarity)
                          => fout.result # None

\* the search returned the second candidate it visited, which scored 0.98
\* or more, and left a third unvisited
C12_Witness ==
    /\ fpc = "returned"
    /\ Len(fout.scanned) = 2
    /\ ScoredAt(1) /\ ScoredAt(2)
    /\ FLess(Frac(0, 1), fout.scanned[1].similarity)
    /\ FGeq(fout.scanned[2].similarity, Confident)
    /\ fout.candidate_ids # {}
    /\ fout.result # None
    /\ fout.result[1].game_id = fout.scanned[2].game_id

\* the highest combined score find_matching_turn gave for a visited candidate
BestFound ==
    LET sims == {fout.scanned[j].similarity : j \in {i \in Scanned : ScoredAt(i)}}
                    \cup {Frac(0, 1)}
    IN  CHOOSE m \in sims : \A x \in sims : FGeq(m, x)

C14_GateOnOccupancy ==
    LET observed == Occupied(ObservedState(fin.obs).board)
    IN  /\ \A j \in Scanned :
               (ScoredAt(j) /\ fout.scanned[j].turn >= 1) =>
                   FGeq(Jaccard(observed,
                                CellsOf[fout.scanned[j].game_id][fout.scanned[j].turn]),
                        OccGate)
        /\ (/\ fpc = "returned"
            /\ fin.min_similarity = DefaultMinSimilarity
            /\ \A g \in fin.candidate_ids \cap Parsed : \A i \in Turns(g) :
                   FLess(Jaccard(observed, CellsOf[g][i]), OccGate))
               => fout.result = None

\* the combined score of every snapshot that passes the occupancy gate, for
\* every search argument: None for a snapshot the gate stops
ScoreTable ==
    [a \in SearchArguments, g \in Parsed |->
        [i \in Turns(g) |->
            IF passes_gate(a.ocr_cgp, RecordOf[g][i])
            THEN <<combined_score(a.ocr_cgp, RecordOf[g][i], a.ocr_scores)>>
            ELSE None]]

SearchArgument == [ocr_cgp |-> fin.ocr_cgp, ocr_scores |-> fin.ocr_scores, obs |-> fin.obs]

\* the snapshots of the candidates that pass the gate, as <<game, turn>>
Gated ==
    {gi \in UNION {{<<g, i>> : i \in Turns(g)} : g \in fin.candidate_ids \cap Parsed} :
        ScoreTable[SearchArgument, gi[1]][gi[2]] # None}

ScoreAt(gi) == ScoreTable[SearchArgument, gi[1]][gi[2]][1]

\* the snapshots with the maximum combined score
Maximal == {gi \in Gated : \A other \in Gated : FGeq(ScoreAt(gi), ScoreAt(other))}

BonusTable ==
    [a \in SearchArguments, g \in Parsed |->
        [i \in Turns(g) |-> score_bonus(RecordOf[g][i], a.ocr_scores)]]
CombinedTable ==
    [a \in SearchArguments, g \in Parsed |->
        [i \in Turns(g) |-> combined_score(a.ocr_cgp, RecordOf[g][i], a.ocr_scores)]]

\* C26: without observed scores every snapshot of a candidate has bonus 0 and a combined
\* score of at most 0.9, no visited candidate reaches 0.98 and a search that
\* returned has visited every candidate; with observed scores the bonus is
\* 0 or lies between 0.09 and 0.1, and the combined score is at most 1.0.
C26_ScoreBounds ==
    /\ \A g \in fin.candidate_ids \cap Parsed : \A i \in Turns(g) :
           LET bonus    == BonusTable[SearchArgument, g][i]
               combined == CombinedTable[SearchArgument, g][i]
           IN  /\ fin.ocr_scores = None =>
                      /\ bonus = Frac(0, 1)
                      /\ FGeq(Frac(9, 10), combined)
               /\ \/ bonus = Frac(0, 1)
                  \/ FGeq(bonus, Frac(9, 100)) /\ FGeq(Frac(1, 10), bonus)
               /\ FGeq(Frac(1, 1), combined)
    /\ fin.ocr_scores = None =>
           /\ \A j \in Scanned : FLess(fout.scanned[j].similarity, Confident)
           /\ fpc # "scan" =>
                  /\ fout.candidate_ids = {}
                  /\ Len(fout.scanned) = Cardinality(fin.candidate_ids)
    /\ \A j \in Scanned : FGeq(Frac(1, 1), fout.scanned[j].similarity)

\* a search without scores visited three candidates, the first of which
\* scored 0.9, and returned it
C26_Witness ==
    /\ fpc = "returned"
    /\ fin.ocr_scores = None
    /\ Len(fout.scanned) = 3
    /\ ScoredAt(1) /\ ScoredAt(2) /\ ScoredAt(3)
    /\ fout.scanned[1].similarity = Frac(9, 10)
    /\ fout.result # None
    /\ fout.result[1].game_id = fout.scanned[1].game_id

----------------------------------------------------------------------------
(* SpecCoord: parse_coord on the text of every anchor of the board and on  *)
(* other tokens                                                            *)

\* the anchor of (row, col): '8H' reads across from row 8, column H, and
\* 'H8' reads down; lower selects the letter case
CoordText(row, col, horizontal, lower) ==
    LET digits == NatStr(row + 1)
        letter == IF lower THEN LowerCase[col + 1] ELSE COLS[col + 1]
    IN  IF horizontal THEN digits \o <<letter>> ELSE <<letter>> \o digits

\* tokens parse_gcg hands to parse_coord besides anchors, and anchors with
\* several letters, leading zeros or a row outside 1..15
CoordTokens ==
    { <<"p", "a", "s", "s">>, <<"P", "8">>, <<"8", "P">>, <<"8">>, <<"H">>, <<>>,
      <<"8", "H", "8">>, <<"H", "8", "H">>, <<"8", "-", "H">>, <<"H", " ", "8">>,
      <<"8", "H", "I">>, <<"a", "b", "1", "2">>, <<"0", "8", "h">>,
      <<"0", "A">>, <<"1", "6", "o">>, <<"8", "h", "p">> }

InitCoord ==
    /\ InitReplayIdle
    /\ fin \in {[coord |-> CoordText(r, c, h, l), anchor |-> TRUE,
                 row |-> r, col |-> c, horizontal |-> h] :
                   r \in Idx, c \in Idx, h \in BOOLEAN, l \in BOOLEAN}
               \cup {[coord |-> t, anchor |-> FALSE,
                      row |-> 0, col |-> 0, horizontal |-> FALSE] : t \in CoordTokens}
    /\ fout = <<>>
    /\ fpc = "input"

ParseCoord ==
    /\ fpc = "input"
    /\ parse_coord(fin.coord).ok
    /\ fout' = <<parse_coord(fin.coord).row, parse_coord(fin.coord).col,
                 parse_coord(fin.coord).horizontal>>
    /\ fpc' = "parsed"
    /\ UNCHANGED <<fin, replayVars>>

\* line 99: raise ValueError
ParseCoordRaises ==
    /\ fpc = "input"
    /\ ~parse_coord(fin.coord).ok
    /\ fpc' = "raised"
    /\ UNCHANGED <<fin, fout, replayVars>>

NextCoord == ParseCoord \/ ParseCoordRaises

SpecCoord == InitCoord /\ [][NextCoord]_vars

\* the two shapes of an anchor: digits then column letters, or column
\* letters then digits, in either letter case
IsColLetter(ch) == upper(ch) \in Range(COLS)
DigitsThenLetters(s) ==
    \E n \in 1 .. (Len(s) - 1) :
        /\ \A i \in 1 .. n : isdigit(s[i])
        /\ \A i \in (n + 1) .. Len(s) : IsColLetter(s[i])
LettersThenDigits(s) ==
    \E n \in 1 .. (Len(s) - 1) :
        /\ \A i \in 1 .. n : IsColLetter(s[i])
        /\ \A i \in (n + 1) .. Len(s) : isdigit(s[i])

\* C15: parse_coord gives (r, c, h) for the text of every anchor of the
\* board, in either letter case, and raises exactly for the tokens that are
\* neither digits then column letters nor column letters then digits.
C15_CoordRoundTrip ==
    fpc # "input" =>
        /\ fin.anchor =>
               /\ fpc = "parsed"
               /\ fout = <<fin.row, fin.col, fin.horizontal>>
        /\ fpc = "raised" <=>
               ~(DigitsThenLetters(fin.coord) \/ LettersThenDigits(fin.coord))

\* a lower-case anchor with a two-digit row, reading down, was parsed
C15_Witness ==
    /\ fpc = "parsed"
    /\ fin.anchor
    /\ fin.coord = <<"o", "1", "5">>
    /\ fout = <<14, 14, FALSE>>

----------------------------------------------------------------------------
(* Claims about parse_gcg.  The i-th appended snapshot, Snap(i), was made   *)
(* from Snap(i - 1) by the line hist[i].line, attributed to hist[i].pidx.   *)

Made == 1 .. Len(hist)

IsWithdrawalLine(line) == IsMove(line) /\ is_withdrawal(line)
IsPlacementLine(line) == IsPlay(line) /\ parse_coord(coord_of(line)).ok

PlayOf(line) ==
    LET at == parse_coord(coord_of(line))
    IN  Play(word_of(line), at.row, at.col, at.horizontal)

WithdrawalAfterPlacement(i) ==
    /\ i \in Made /\ i >= 2
    /\ IsWithdrawalLine(hist[i].line)
    /\ IsPlacementLine(hist[i - 1].line)

\* C3 as stated: the board after a withdrawal that follows a placement is
\* the board before that placement.
C3_WithdrawalRestoresBoard ==
    \A i \in Made :
        WithdrawalAfterPlacement(i) => Snap(i).board = Snap(i - 2).board

\* C3 amended: that board is the board after the placement with exactly the
\* cells the word wrote (its non-'.' characters) emptied and no other cell
\* changed; it is the board before the placement when those cells were empty
\* before the placement.
C3_WithdrawalEmptiesWritten ==
    \A i \in Made :
        WithdrawalAfterPlacement(i) =>
            LET p == PlayOf(hist[i - 1].line)
            IN  /\ \A pos \in Idx \X Idx :
                       Snap(i).board[pos[1]][pos[2]] =
                           IF pos \in Written(p) THEN EmptyCell
                           ELSE Snap(i - 1).board[pos[1]][pos[2]]
                /\ (\A pos \in Written(p) :
                        Snap(i - 2).board[pos[1]][pos[2]] = EmptyCell)
                       => Snap(i).board = Snap(i - 2).board

\* a through-play ('.' over a tile of an earlier word) was withdrawn and
\* the earlier word is still on the board
C3_Witness ==
    \E i \in Made :
        /\ WithdrawalAfterPlacement(i)
        /\ ~NoDots(word_of(hist[i - 1].line))
        /\ Snap(i - 2).board # EmptyBoard
        /\ Snap(i - 1).board # Snap(i - 2).board
        /\ Snap(i).board = Snap(i - 2).board

\* C4: the snapshot of a withdrawal line has the on_turn and the turn of
\* the snapshot before it, whichever player the line names.
C4_WithdrawalKeepsTurn ==
    \A i \in Made :
        IsWithdrawalLine(hist[i].line) =>
            /\ Snap(i).on_turn = Snap(i - 1).on_turn
            /\ Snap(i).turn = Snap(i - 1).turn

\* a withdrawal by the player who just placed, who is no longer on turn
C4_Witness ==
    \E i \in Made :
        /\ WithdrawalAfterPlacement(i)
        /\ hist[i].pidx = hist[i - 1].pidx
        /\ Snap(i - 1).on_turn # hist[i].pidx
        /\ Snap(i).board # Snap(i - 1).board

\* C5 as stated: every regular placement changes on_turn.
C5_PlacementChangesOnTurn ==
    \A i \in Made :
        IsPlacementLine(hist[i].line) => Snap(i).on_turn # Snap(i - 1).on_turn

\* C5 amended: a regular placement attributed to player p leaves on_turn at
\* 1 - p; on_turn changes exactly when p was the player on turn.
C5_PlacementSetsOnTurn ==
    \A i \in Made :
        IsPlacementLine(hist[i].line) =>
            /\ Snap(i).on_turn = 1 - hist[i].pidx
            /\ (Snap(i).on_turn # Snap(i - 1).on_turn
                    <=> Snap(i - 1).on_turn = hist[i].pidx)

\* two placements in a row by the same player, named by nickname
C5_Witness ==
    \E i \in Made :
        /\ i >= 2
        /\ IsPlacementLine(hist[i].line)
        /\ IsPlacementLine(hist[i - 1].line)
        /\ hist[i].pidx = hist[i - 1].pidx
        /\ Snap(i).on_turn = Snap(i - 1).on_turn

NPlacements == Cardinality({i \in Made : IsPlacementLine(hist[i].line)})
NWithdrawals == Cardinality({i \in Made : IsWithdrawalLine(hist[i].line)})

C7_NeverRaises == pc # "raised"

\* the delta and total fields of a line: the third and fourth field of a
\* withdrawal line (RACK -- DELTA TOTAL), the fourth and fifth of any other
MalformedNumeric(line) ==
    IF is_withdrawal(line)
    THEN ~int(line.rest[3]).ok \/ ~int(line.rest[4]).ok
    ELSE ~int(lstrip_plus(score_str_of(line))).ok \/ ~int(total_str_of(line)).ok

ScoreRetained(i) ==
    Snap(i).scores[hist[i].pidx] = Snap(i - 1).scores[hist[i].pidx]

\* C8 as stated: a line of any kind whose delta or total is not an integer
\* leaves the acting player's score as it was.
C8_MalformedKeepsScore ==
    \A i \in Made : MalformedNumeric(hist[i].line) => ScoreRetained(i)

\* C8 amended: an exchange, event, end-of-game, pass or placement line whose
\* fourth field (leading '+' stripped) or fifth field is not an integer, and
\* a withdrawal line whose fourth field is not an integer, leave the acting
\* player's score as it was; a withdrawal line whose fourth field is an
\* integer sets the score to it whatever its other fields hold.
C8_MalformedKeepsScoreByKind ==
    \A i \in Made :
        LET line == hist[i].line
        IN  /\ (~is_withdrawal(line) /\ MalformedNumeric(line)) => ScoreRetained(i)
            /\ (is_withdrawal(line) /\ ~int(line.rest[4]).ok) => ScoreRetained(i)
            /\ (is_withdrawal(line) /\ int(line.rest[4]).ok) =>
                   Snap(i).scores[hist[i].pidx] = int(line.rest[4]).val

\* a malformed line met a non-zero score, kept it, and a later line was
\* replayed
C8_Witness ==
    \E i \in Made :
        /\ MalformedNumeric(hist[i].line)
        /\ ~is_withdrawal(hist[i].line)
        /\ Snap(i - 1).scores[hist[i].pidx] # 0
        /\ ScoreRetained(i)
        /\ i < Len(hist)

\* C9: no step changes a snapshot already in the list: every states[i]
\* keeps its place and its value.
C9_SnapshotsImmutable ==
    [][\A i \in 1 .. Len(states) :
          /\ i <= Len(states')
          /\ heap'[states'[i]] = heap[states[i]]]_vars

\* placements and a header line came after snapshots that differ from the
\* working state
C9_Witness ==
    /\ Len(states) >= 3
    /\ Snap(1).board # Snap(2).board
    /\ Snap(1).scores # Snap(2).scores
    /\ Snap(0).board = EmptyBoard
    /\ Working.players # Snap(2).players

----------------------------------------------------------------------------
(* Claims about the transitions of parse_gcg.                              *)

\* placement, event-marker line, withdrawal: snapshots i - 2, i - 1, i
PlacementEventWithdrawal(i) ==
    /\ i \in Made /\ i >= 3
    /\ coord_of(hist[i].line) = DashDash
    /\ hist[i - 1].branch = "event"
    /\ IsPlacementLine(hist[i - 2].line)

\* C16: in the sequence placement, event-marker line, withdrawal, the
\* withdrawal still removes the tiles of the placed word: the cells the word
\* wrote are empty after the withdrawal.
C16_EventKeepsPending ==
    \A i \in Made :
        PlacementEventWithdrawal(i) =>
            \A pos \in Written(PlayOf(hist[i - 2].line)) :
                Snap(i).board[pos[1]][pos[2]] = EmptyCell

\* C18: a withdrawal line that immediately follows the same player's
\* placement and carries an integer total sets the score of the player who
\* placed to that total and leaves the other player's score alone; when the
\* total is the score from before the placement, both scores are as they were
\* before the placement.
C18_WithdrawalRestoresScore ==
    \A i \in Made :
        (/\ WithdrawalAfterPlacement(i)
         /\ hist[i].line.name = hist[i - 1].line.name
         /\ int(hist[i].line.rest[4]).ok) =>
            LET q     == hist[i - 1].pidx
                total == int(hist[i].line.rest[4]).val
            IN  /\ Snap(i).scores[q] = total
                /\ Snap(i).scores[1 - q] = Snap(i - 1).scores[1 - q]
                /\ total = Snap(i - 2).scores[q] =>
                       Snap(i).scores = Snap(i - 2).scores

\* C19: a line whose anchor is '--' is processed as a withdrawal, also when
\* its next field is a dash followed by more characters: its snapshot has
\* the on_turn of the one before and the score its fourth field gives, not
\* the total an exchange would set; and no line processed as an exchange has
\* the anchor '--'.
C19_WithdrawalBeforeExchange ==
    \A i \in Made :
        LET line == hist[i].line
        IN  /\ coord_of(line) = DashDash =>
                   /\ hist[i].branch = "withdrawal"
                   /\ Snap(i).on_turn = Snap(i - 1).on_turn
                   /\ int(line.rest[4]).ok =>
                          Snap(i).scores[hist[i].pidx] = int(line.rest[4]).val
            /\ hist[i].branch = "exchange" => coord_of(line) # DashDash

\* a withdrawal line whose third field has the shape of an exchange, by the
\* player on turn, whose fourth field differs from the default total
C19_Witness ==
    \E i \in Made :
        /\ coord_of(hist[i].line) = DashDash
        /\ is_exchange(hist[i].line)
        /\ hist[i].pidx = Snap(i - 1).on_turn
        /\ Snap(i).scores[hist[i].pidx] # 0

\* C20: the snapshot of an exchange, event-marker, end-of-game or pass line
\* has the board and the turn of the snapshot before it, and that of an
\* event-marker or end-of-game line also its on_turn; between snapshots the
\* working state keeps the board and the turn of the last snapshot.
C20_BoardAndTurnFrame ==
    /\ \A i \in Made :
           /\ hist[i].branch \in {"exchange", "event", "end_adjust", "pass"} =>
                  /\ Snap(i).board = Snap(i - 1).board
                  /\ Snap(i).turn = Snap(i - 1).turn
           /\ hist[i].branch \in {"event", "end_adjust"} =>
                  Snap(i).on_turn = Snap(i - 1).on_turn
           /\ hist[i].branch \notin {"placement", "withdrawal"} =>
                  Snap(i).board = Snap(i - 1).board
           /\ hist[i].branch # "placement" => Snap(i).turn = Snap(i - 1).turn
    /\ pc # "raised" =>
           /\ Working.board = Snap(LastIdx).board
           /\ Working.turn = Snap(LastIdx).turn

\* an event-marker line that changed a score on a board that holds tiles,
\* with a header line read besides the two move lines
C20_Witness ==
    /\ Len(hist) = 2
    /\ nread = 3
    /\ hist[2].branch = "event"
    /\ Snap(2).scores # Snap(1).scores
    /\ Snap(1).board # EmptyBoard

\* C21: the snapshot of a line processed as an exchange or as a pass by
\* player p has on_turn = 1 - p; the pending slot is empty after it, and a
\* withdrawal line processed next leaves the board as it was.
C21_ExchangePassAdvance ==
    \A i \in Made :
        hist[i].branch \in {"exchange", "pass"} =>
            /\ Snap(i).on_turn = 1 - hist[i].pidx
            /\ i = Len(hist) => pending_phony = None
            /\ (i + 1 \in Made /\ hist[i + 1].branch = "withdrawal") =>
                   Snap(i + 1).board = Snap(i).board

\* placement, pass, withdrawal: the placed tiles stay on the board
C21_Witness ==
    /\ Len(hist) = 3
    /\ hist[1].branch = "placement"
    /\ hist[2].branch = "pass"
    /\ hist[3].branch = "withdrawal"
    /\ Snap(3).board = Snap(1).board
    /\ Snap(3).board # EmptyBoard

\* C23: the pending slot is empty after a withdrawal line, and the snapshot
\* of a withdrawal line that is the first move line or follows a snapshot
\* made by anything but a placement (another withdrawal included) has the
\* board of the snapshot before it.
C23_WithdrawalOnce ==
    \A i \in Made :
        hist[i].branch = "withdrawal" =>
            /\ i = Len(hist) => pending_phony = None
            /\ (i = 1 \/ hist[i - 1].branch # "placement") =>
                   Snap(i).board = Snap(i - 1).board

\* placement, withdrawal, withdrawal: the first emptied the written cells
\* and the second changed nothing
C23_Witness ==
    /\ Len(hist) = 3
    /\ hist[1].branch = "placement"
    /\ hist[2].branch = "withdrawal"
    /\ hist[3].branch = "withdrawal"
    /\ Snap(1).board # EmptyBoard
    /\ Snap(2).board = EmptyBoard
    /\ Snap(3).board = Snap(2).board
    /\ pending_phony = None

\* C24: the snapshot of a move line attributed to player p has, for player
\* 1 - p, the score of the snapshot before it.
C24_OtherScoreKept ==
    \A i \in Made :
        Snap(i).scores[1 - hist[i].pidx] = Snap(i - 1).scores[1 - hist[i].pidx]

\* an end-of-game line changed its player's score while the other player
\* held a score different from zero
C24_Witness ==
    \E i \in Made :
        /\ hist[i].branch = "end_adjust"
        /\ Snap(i).scores[hist[i].pidx] # Snap(i - 1).scores[hist[i].pidx]
        /\ Snap(i - 1).scores[1 - hist[i].pidx] # 0
        /\ Snap(i).scores[1 - hist[i].pidx] # Snap(i).scores[hist[i].pidx]

\* C25: the snapshot of a move line that is not a withdrawal, has exactly
\* four fields after the colon and a fourth field int() reads (after a
\* leading '+' is stripped) gives its player the score 0.
C25_MissingTotalIsZero ==
    \A i \in Made :
        LET line == hist[i].line
        IN  (/\ hist[i].branch # "withdrawal"
             /\ Len(line.rest) = 4
             /\ int(lstrip_plus(score_str_of(line))).ok) =>
                Snap(i).scores[hist[i].pidx] = 0

\* a four-field line took its player's score from a value other than 0 to 0
C25_Witness ==
    \E i \in Made :
        /\ hist[i].branch # "withdrawal"
        /\ Len(hist[i].line.rest) = 4
        /\ int(lstrip_plus(score_str_of(hist[i].line))).ok
        /\ Snap(i - 1).scores[hist[i].pidx] # 0
        /\ Snap(i).scores[hist[i].pidx] = 0

\* the placements among the first i lines that made a snapshot
PlacementsUpTo(i) == Cardinality({j \in 1 .. i : hist[j].branch = "placement"})

\* C27: along the replay sequence turn rises by 1 at the snapshot of a
\* placement and stays at every other snapshot, withdrawals included, so
\* the turn of snapshot i is the number of placement lines among the first
\* i lines that made a snapshot, withdrawn ones counted, and is at most i.
C27_TurnNeverDecrements ==
    /\ Snap(0).turn = 0
    /\ \A i \in Made :
           /\ Snap(i).turn =
                  Snap(i - 1).turn + (IF hist[i].branch = "placement" THEN 1 ELSE 0)
           /\ Snap(i).turn = PlacementsUpTo(i)
           /\ Snap(i).turn <= i

\* placement, withdrawal, placement: the board holds the second word only
\* and turn is 2
C27_Witness ==
    /\ Len(hist) = 3
    /\ hist[1].branch = "placement"
    /\ hist[2].branch = "withdrawal"
    /\ Snap(2).board = EmptyBoard
    /\ hist[3].branch = "placement"
    /\ Snap(3).turn = 2

=============================================================================
